---- MODULE Spec2Model ----
(***************************************************************************)
(* Document-processing pipeline of the Learning Lab module: the upload,    *)
(* tag and delete handlers of controllers/documentController.js, the blob  *)
(* adapter of services/s3Service.js and the Bull worker of                 *)
(* services/docProcessingQueue.js (the revision with content moderation).  *)
(*                                                                         *)
(* Every await of a handler is a scheduling point, so a handler is a       *)
(* sequence of atomic steps (one action per step) that interleave with     *)
(* the steps of the other handlers.  External capabilities (S3, MongoDB,   *)
(* Rekognition, Textract, Transcribe) answer nondeterministically: each    *)
(* call either throws or returns one of the values of a small set.         *)
(*                                                                         *)
(* Spec is the pipeline with the worker; SpecSummarizing the worker of     *)
(* the summarizing revision; SpecFunctions the pure functions; SpecApi the *)
(* handlers of documentController.js with their answers, on a store that   *)
(* the pipeline has filled; SpecRetrieval generateFromPrompt of            *)
(* controllers/generateController.js with the OpenSearch index.  In Spec   *)
(* the queue takes every job that is added; in SpecApi an add may be       *)
(* rejected, which the upload handler does not wait to learn.              *)
(***************************************************************************)
EXTENDS Integers, Sequences, FiniteSets, TLC

\* ---------------------------------------------------------------- bounds
MaxDocs == 1          \* number of uploads ever accepted
MaxRedeliver == 1     \* number of extra deliveries (retries, duplicates)
MaxPolls == 13        \* polls of one transcription job the model follows
MaxVersion == 2       \* highest __v a record reaches before tag updates stop
MaxCalls == 2         \* generateFromPrompt requests in flight at a time
MaxStored == 2        \* documents in the store when the HTTP model starts

\* ------------------------------------------------------ program constants
ModerationPollLimit == 12

DocIds == 1..MaxDocs

\* absent values
NoDoc == [absent |-> TRUE]
NoReq == [id |-> 0]
NoKey == <<>>
NoText == <<-1>>
NoEmbedding == <<>>
NoSummary == <<-1>>
NoCall == [op |-> "none"]

\* texts are sequences of character codes: "", "A", " B"
Texts == {<<>>, <<65>>, <<32, 66>>}

\* strings whose characters the code inspects (keys, file names) are sequences
\* of one-character strings
Docs == <<"d", "o", "c", "s", "/">>
TextDir == <<"t", "e", "x", "t", "/">>
Mp3 == <<".", "m", "p", "3">>
Wav == <<".", "w", "a", "v">>
Mp4 == <<".", "m", "p", "4">>
Mov == <<".", "m", "o", "v">>

\* the uploads of the model: content type and original file name
UploadKinds == { <<"image/png", <<"a", ".", "p", "n", "g">> >>,
                 <<"video/mp4", <<"a", ".", "m", "p", "4">> >>,
                 <<"audio/mpeg", <<"a", ".", "m", "p", "3">> >>,
                 <<"text/plain", <<"a", ".", "t", "x", "t">> >>,
                 <<"application/octet-stream", <<"a", ".", "M", "P", "3">> >> }

TagLists == {<<>>, <<"t">>}

\* fileType.startsWith(prefix), over the content types of the model
StartsWith(fileType, prefix) ==
    \/ prefix = "image/" /\ fileType \in {"image/png", "image/"}
    \/ prefix = "video/" /\ fileType \in {"video/mp4", "video/"}
    \/ prefix = "audio/" /\ fileType \in {"audio/mpeg", "audio/"}

\* String.prototype.toLowerCase, over the letters of the model
toLowerCase(s) ==
    [i \in 1..Len(s) |-> IF s[i] = "M" THEN "m"
                         ELSE IF s[i] = "P" THEN "p"
                         ELSE IF s[i] = "A" THEN "a"
                         ELSE IF s[i] = "S" THEN "s"
                         ELSE IF s[i] = "H" THEN "h" ELSE s[i]]

\* String.prototype.endsWith
endsWith(s, suffix) ==
    /\ Len(s) >= Len(suffix)
    /\ SubSeq(s, Len(s) - Len(suffix) + 1, Len(s)) = suffix

\* String.prototype.split with a one-character separator
RECURSIVE split(_, _)
split(s, sep) ==
    IF \A i \in 1..Len(s) : s[i] # sep THEN <<s>>
    ELSE LET i == CHOOSE k \in 1..Len(s) :
                     s[k] = sep /\ \A j \in 1..(k - 1) : s[j] # sep
         IN <<SubSeq(s, 1, i - 1)>> \o split(SubSeq(s, i + 1, Len(s)), sep)

\* uuidv4(): the n-th value the generator returns (no '/', '.', '_' in it)
uuidv4(n) == << <<"1", "2", "3", "4", "5", "6", "7", "8", "9">>[n] >>

\* mutant of FileKey: the key is built from the original name alone
FileKeyWithoutToken(id, originalname) == Docs \o originalname

\* const fileKey = `docs/${fileId}_${file.originalname}`
FileKey(id, originalname) == Docs \o uuidv4(id) \o <<"_">> \o originalname

\* ------------------------------------------------------------ the record
UploadedStatus == "uploaded"
ProcessedStatus == "processed"
ModerationStatus == "deleted due to content moderation"

DefaultStatusMutant == "pending"
\* status: { type: String, default: 'uploaded' }
DefaultStatus == UploadedStatus

\* DocumentModel.create({ name, filename, fileType, s3Key, tags })
NewDocument(fileType, s3Key, tags) ==
    [ fileType |-> fileType, s3Key |-> s3Key, tags |-> tags,
      status |-> DefaultStatus, textS3Key |-> NoKey,
      embedding |-> NoEmbedding, summary |-> NoSummary, version |-> 0 ]

Fields == {"fileType", "s3Key", "tags", "status", "textS3Key", "embedding", "summary"}

\* a loaded Mongoose document: the values read, and the paths assigned since
Loaded(rec) == [rec |-> rec, dirty |-> {}]

\* doc.field = value : a path is marked modified when its value changes
Assign(doc, field, value) ==
    [rec |-> [doc.rec EXCEPT ![field] = value],
     dirty |-> IF doc.rec[field] = value THEN doc.dirty ELSE doc.dirty \cup {field}]

\* the paths that hold an array: save() sends the loaded version key (__v,
\* the field `version` here) with a $set of such a path, and increments it
ArrayPaths == {"tags", "embedding"}

\* the update of this save carries `__v: <loaded version>` in its filter
Versioned(doc) == doc.dirty \cap ArrayPaths # {}

\* the filter of a versioned save matches no record: VersionError
VersionError(stored, doc) ==
    stored # NoDoc /\ Versioned(doc) /\ stored.version # doc.rec.version

\* __v after the update
NextVersion(stored, doc) ==
    IF Versioned(doc) THEN stored.version + 1 ELSE stored.version

\* mutant of Save: the whole in-memory document replaces the stored one
SaveWholeRecord(stored, doc) ==
    IF stored = NoDoc THEN NoDoc ELSE doc.rec

\* mutant of Save: the status is written apart from the other paths
SaveStatusOnly(stored, doc) ==
    IF stored = NoDoc THEN NoDoc
    ELSE [f \in Fields \cup {"version"} |->
             IF f = "version" THEN NextVersion(stored, doc)
             ELSE IF f \in doc.dirty \cap {"status", "tags"}
                    THEN doc.rec[f] ELSE stored[f]]

\* doc.save() of a document that was loaded from the store: only the
\* assigned paths are written ($set of the modified paths); a record that
\* was removed meanwhile is not created again
Save(stored, doc) ==
    IF stored = NoDoc THEN NoDoc
    ELSE IF VersionError(stored, doc) THEN stored
    ELSE [f \in Fields \cup {"version"} |->
             IF f = "version" THEN NextVersion(stored, doc)
             ELSE IF f \in doc.dirty THEN doc.rec[f] ELSE stored[f]]

\* save() rejects when it has paths to write and the record no longer
\* exists, or no longer has the version the document was loaded with
SaveThrows(stored, doc) ==
    \/ stored = NoDoc /\ doc.dirty # {}
    \/ VersionError(stored, doc)

VARIABLES
    db,          \* document store: id -> record or NoDoc
    s3,          \* blob store: key -> content, for the keys that exist
    queue,       \* jobs waiting in docProcessQueue (document ids)
    nextId,      \* next unused document id
    created,     \* ids whose record was created (a job was added for them)
    redelivered, \* number of extra deliveries so far
    up,          \* upload request between its awaits
    tagReq,      \* tag request between findById and save
    pc,          \* position of the worker in the job it is running
    jobDoc,      \* docId of the running job
    docRecord,   \* the worker's loaded document
    fileBuffer,  \* downloaded original
    extractedText,
    polls,       \* polls done in the current polling loop
    pollStatus,  \* status reported by the latest poll of the current loop
    moderation,  \* how the moderation check of the running job ended
    summary,     \* local `summary` of the processor (summarizing revision)
    result,      \* what the queue was told about the job that finished last
    threw,       \* the stage whose exception ended that job
    transcriptions, \* transcription jobs started so far (their names are fresh)
    call,        \* a call of a pure function: its arguments and its result
    index,       \* the 'documents' index of OpenSearch
    gen,         \* the generateFromPrompt requests between their awaits
    resp         \* the response sent last by a handler that records it

vars == <<db, s3, queue, nextId, created, redelivered, up, tagReq, pc, jobDoc,
          docRecord, fileBuffer, extractedText, polls, pollStatus, moderation,
          summary, result, threw, transcriptions, call, index, gen, resp>>

programVars == <<db, s3, queue, nextId, created, redelivered, up, tagReq, pc, jobDoc,
                 docRecord, fileBuffer, extractedText, polls, pollStatus, moderation,
                 summary, result, threw, transcriptions, index, gen, resp>>

httpVars == <<up, tagReq>>
jobVars == <<pc, jobDoc, docRecord, fileBuffer, extractedText, polls,
             pollStatus, moderation, summary, result, threw>>

\* the slots of the generateFromPrompt requests in flight
Calls == 1..MaxCalls

\* no request in the slot
NoGen == [pc |-> "none"]

\* the 'documents' index does not exist; an existing index holds its
\* entries in the order they were written
NoIndex == [exists |-> FALSE, entries |-> <<>>]

\* nothing was answered yet
NoResponse == [op |-> "none", id |-> 0, status |-> 0, error |-> "none", documents |-> {}]

\* the stores, the queue and the worker right after the server has started
InitProgram ==
    /\ db = [d \in DocIds |-> NoDoc]
    /\ s3 = <<>>
    /\ queue = <<>>
    /\ nextId = 1
    /\ created = {}
    /\ redelivered = 0
    /\ up = NoReq
    /\ tagReq = NoReq
    /\ pc = "idle"
    /\ jobDoc = 0
    /\ docRecord = Loaded(NoDoc)
    /\ fileBuffer = NoText
    /\ extractedText = NoText
    /\ polls = 0
    /\ pollStatus = "none"
    /\ moderation = "none"
    /\ summary = NoSummary
    /\ result = "none"
    /\ threw = "none"
    /\ transcriptions = 0
    /\ index = NoIndex
    /\ gen = [r \in Calls |-> NoGen]
    /\ resp = NoResponse

Init == InitProgram /\ call = NoCall

\* mutant of Put: the object is not written
PutNothing(store, key, content) == store

\* blob store operations
Put(store, key, content) ==
    [k \in DOMAIN store \cup {key} |-> IF k = key THEN content ELSE store[k]]

Remove(store, key) == [k \in DOMAIN store \ {key} |-> store[k]]

Exists(store, key) == key \in DOMAIN store

\* ------------------------------------------------------- HTTP handlers

\* res.status(status).json(...): the response is recorded
Respond(op, id, status, error, documents) ==
    resp' = [op |-> op, id |-> id, status |-> status,
             error |-> error, documents |-> documents]

\* uploadDocument up to the end of `await uploadFileToS3(fileKey, file.buffer)`
\* for a request that carries a file with an allowed extension; `recorded`
\* tells whether the specification keeps the answers of the handler
UploadFileOf(kind, recorded) ==
    /\ up = NoReq
    /\ nextId <= MaxDocs
    /\ \E content \in Texts, tags \in TagLists, ok \in BOOLEAN :
         /\ nextId' = nextId + 1
         /\ IF ok
              THEN /\ s3' = Put(s3, FileKey(nextId, kind[2]), content)
                   /\ up' = [id |-> nextId, fileType |-> kind[1],
                             s3Key |-> FileKey(nextId, kind[2]), tags |-> tags]
                   /\ UNCHANGED resp
              ELSE /\ UNCHANGED <<s3, up>>      \* the catch block
                   /\ IF recorded
                        THEN Respond("upload", 0, 500, "Upload failed.", {})
                        ELSE UNCHANGED resp
    /\ UNCHANGED <<db, queue, created, redelivered, tagReq>>
    /\ UNCHANGED jobVars
    /\ UNCHANGED <<transcriptions, call, index, gen>>

UploadFile(kind) == UploadFileOf(kind, FALSE)

UploadPut == \E kind \in UploadKinds : UploadFile(kind)

\* uploadDocument from DocumentModel.create to the response. The promise of
\* docProcessQueue.add is not awaited and has no handler: the response is
\* sent whether the queue accepts the job or not (`addOutcomes`: TRUE when
\* the job is accepted, FALSE when the add is rejected); `recorded` tells
\* whether the specification keeps the answers of the handler
UploadCreateOf(recorded, addOutcomes) ==
    /\ up # NoReq
    /\ \E ok \in BOOLEAN, added \in addOutcomes :
         IF ok
           THEN /\ db' = [db EXCEPT ![up.id] = NewDocument(up.fileType, up.s3Key, up.tags)]
                /\ queue' = IF added THEN Append(queue, up.id) ELSE queue
                /\ created' = created \cup {up.id}
                /\ IF recorded
                     THEN Respond("upload", up.id, 200, "none", {})
                     ELSE UNCHANGED resp
           ELSE /\ UNCHANGED <<db, queue, created>>    \* the catch block
                /\ IF recorded
                     THEN Respond("upload", 0, 500, "Upload failed.", {})
                     ELSE UNCHANGED resp
    /\ up' = NoReq
    /\ UNCHANGED <<s3, nextId, redelivered, tagReq>>
    /\ UNCHANGED jobVars
    /\ UNCHANGED <<transcriptions, call, index, gen>>

\* the upload as the worker's specification sees it: the queue is available
\* and takes every job
UploadCreate == UploadCreateOf(FALSE, {TRUE})

\* addOrUpdateTags up to the end of `await DocumentModel.findById(docId)`,
\* for an id that has a record (404 otherwise)
TagsLoad ==
    /\ tagReq = NoReq
    /\ \E d \in DocIds, tags \in TagLists :
         /\ db[d] # NoDoc
         /\ db[d].version < MaxVersion
         /\ tagReq' = [id |-> d, doc |-> Assign(Loaded(db[d]), "tags", tags)]
    /\ UNCHANGED <<db, s3, queue, nextId, created, redelivered, up>>
    /\ UNCHANGED jobVars
    /\ UNCHANGED <<transcriptions, call, index, gen, resp>>

\* addOrUpdateTags: `await doc.save()` and the response
TagsSave ==
    /\ tagReq # NoReq
    /\ db' = [db EXCEPT ![tagReq.id] = Save(db[tagReq.id], tagReq.doc)]
    /\ tagReq' = NoReq
    /\ UNCHANGED <<s3, queue, nextId, created, redelivered, up>>
    /\ UNCHANGED jobVars
    /\ UNCHANGED <<transcriptions, call, index, gen, resp>>

\* deleteDocument on an id that has a record (404 otherwise)
DeleteDocument ==
    /\ \E d \in DocIds :
         /\ db[d] # NoDoc
         /\ db' = [db EXCEPT ![d] = NoDoc]
    /\ UNCHANGED <<s3, queue, nextId, created, redelivered, up, tagReq>>
    /\ UNCHANGED jobVars
    /\ UNCHANGED <<transcriptions, call, index, gen, resp>>

\* the queue delivers a job once more (retry or duplicate delivery)
Redeliver ==
    /\ redelivered < MaxRedeliver
    /\ \E d \in created :
         queue' = Append(queue, d)
    /\ redelivered' = redelivered + 1
    /\ UNCHANGED <<db, s3, nextId, created, up, tagReq>>
    /\ UNCHANGED jobVars
    /\ UNCHANGED <<transcriptions, call, index, gen, resp>>

\* ------------------------------------------------------------ the worker

\* extractedText.replace(/\s+/g, ' ').trim() ; 32 is the only white space
\* character of the model
RECURSIVE Collapse(_)
Collapse(t) ==
    IF Len(t) <= 1 THEN t
    ELSE IF t[1] = 32 /\ t[2] = 32 THEN Collapse(Tail(t))
    ELSE <<t[1]>> \o Collapse(Tail(t))

RECURSIVE TrimLeft(_)
TrimLeft(t) == IF t # <<>> /\ t[1] = 32 THEN TrimLeft(Tail(t)) ELSE t

RECURSIVE TrimRight(_)
TrimRight(t) ==
    IF t # <<>> /\ t[Len(t)] = 32 THEN TrimRight(SubSeq(t, 1, Len(t) - 1)) ELSE t

CleanText(t) == TrimRight(TrimLeft(Collapse(t)))

RECURSIVE SumCodes(_)
SumCodes(t) == IF t = <<>> THEN 0 ELSE t[1] + SumCodes(Tail(t))

\* generateEmbedding: [avg, avg / 2, avg / 3] with avg = sum / (length || 1);
\* a number is kept as the fraction <<numerator, denominator>>
generateEmbedding(text) ==
    LET sum == SumCodes(text)
        n == IF Len(text) = 0 THEN 1 ELSE Len(text)
    IN <<  <<sum, n>>, <<sum, 2 * n>>, <<sum, 3 * n>>  >>

\* mutant of NeedsModeration: every content type is moderated
ModeratesEverything(fileType) == TRUE

\* the condition of the moderation block of the worker
NeedsModeration(fileType) ==
    StartsWith(fileType, "image/") \/ StartsWith(fileType, "video/")

\* mutant of Strategy: the extension is compared as it is written in the key
StrategyCaseSensitive(fileType, s3Key) ==
    IF StartsWith(fileType, "image/") THEN "textract"
    ELSE IF fileType = "application/octet-stream"
            /\ (endsWith(s3Key, Mp3) \/ endsWith(s3Key, Wav)
                \/ endsWith(s3Key, Mp4) \/ endsWith(s3Key, Mov)) THEN "transcribe"
    ELSE IF StartsWith(fileType, "audio/") \/ StartsWith(fileType, "video/") THEN "transcribe"
    ELSE IF fileType = "application/pdf" THEN "pdf-parse"
    ELSE IF fileType \in {"application/vnd.ms-excel",
              "application/vnd.openxmlformats-officedocument.spreadsheetml.sheet"} THEN "xlsx"
    ELSE IF fileType \in {"application/msword",
              "application/vnd.openxmlformats-officedocument.wordprocessingml.document"} THEN "mammoth"
    ELSE "utf8"

\* the extraction strategy TextExtraction dispatches to
Strategy(fileType, s3Key) ==
    LET lowerKey == toLowerCase(s3Key)
    IN IF StartsWith(fileType, "image/") THEN "textract"
       ELSE IF fileType = "application/octet-stream"
               /\ (endsWith(lowerKey, Mp3) \/ endsWith(lowerKey, Wav)) THEN "transcribe"
       ELSE IF fileType = "application/octet-stream"
               /\ (endsWith(lowerKey, Mp4) \/ endsWith(lowerKey, Mov)) THEN "transcribe"
       ELSE IF StartsWith(fileType, "audio/") \/ StartsWith(fileType, "video/") THEN "transcribe"
       ELSE IF fileType = "application/pdf" THEN "pdf-parse"
       ELSE IF fileType = "text/csv" THEN "utf8"
       ELSE IF fileType \in {"application/vnd.ms-excel",
                 "application/vnd.openxmlformats-officedocument.spreadsheetml.sheet"} THEN "xlsx"
       ELSE IF fileType \in {"application/msword",
                 "application/vnd.openxmlformats-officedocument.wordprocessingml.document"} THEN "mammoth"
       ELSE "utf8"

\* transcriptSuffix of the worker
TranscriptSuffix(fileType) ==
    IF StartsWith(fileType, "audio/") \/ StartsWith(fileType, "video/")
      THEN <<"_", "t", "r", "a", "n", "s", "c", "r", "i", "p", "t", ".", "t", "x", "t">>
      ELSE <<"_", "d", "o", "c", "u", "m", "e", "n", "t", ".", "t", "x", "t">>

\* filenamePart.replace(/\.[^/.]+$/, "") : the last '.' and what follows it
\* are removed when at least one character follows and none of them is '/'
BaseName(filenamePart) ==
    LET dots == {i \in 1..Len(filenamePart) : filenamePart[i] = "."}
    IN IF dots = {} THEN filenamePart
       ELSE LET last == CHOOSE i \in dots : \A j \in dots : j <= i
            IN IF last < Len(filenamePart)
                  /\ \A j \in (last + 1)..Len(filenamePart) : filenamePart[j] # "/"
                 THEN SubSeq(filenamePart, 1, last - 1)
                 ELSE filenamePart

\* `text/${baseName}${transcriptSuffix}` with
\* filenamePart = originalKey.split('/')[1]
TranscriptKey(originalKey, fileType) ==
    TextDir \o BaseName(split(originalKey, "/")[2]) \o TranscriptSuffix(fileType)

\* mutant of CatchBlock: the catch block marks the record as failed
CatchMarksFailed(store, d) ==
    [store EXCEPT ![d] = IF @ = NoDoc THEN @ ELSE [@ EXCEPT !.status = "failed"]]

\* catch (error) { console.error(...); throw error; } : the store is not touched
CatchBlock(store, d) == store

\* the worker's variables once the processor has ended
JobOver ==
    /\ pc' = "idle"
    /\ docRecord' = Loaded(NoDoc)
    /\ fileBuffer' = NoText
    /\ extractedText' = NoText
    /\ polls' = 0
    /\ pollStatus' = "none"
    /\ moderation' = "none"
    /\ summary' = NoSummary
    /\ UNCHANGED jobDoc

\* the job ends by an exception raised in `stage`: the catch block runs and
\* rethrows, Bull marks the job failed
Throw(stage) ==
    /\ db' = CatchBlock(db, jobDoc)
    /\ result' = "failed"
    /\ threw' = stage
    /\ JobOver

\* the processor returns: Bull marks the job completed
Return ==
    /\ result' = "completed"
    /\ threw' = "none"
    /\ JobOver

httpAndQueue == <<queue, nextId, created, redelivered, up, tagReq, transcriptions, call,
                  index, gen, resp>>

\* docProcessQueue.process(handler) names no concurrency: the queue runs
\* Concurrency processors of this worker at a time
Concurrency == 1

\* number of processors in flight when the worker is at `p`
InFlight(p) == IF p = "idle" THEN 0 ELSE 1

\* mutant of CanStart: a job is handed over whatever is in flight
CanStartAlways(p) == TRUE

\* the queue hands the next job to the processor
CanStart(p) == InFlight(p) < Concurrency

\* the processor is called with the next job: findById and the null check
JobStart ==
    /\ CanStart(pc)
    /\ queue # <<>>
    /\ queue' = Tail(queue)
    /\ jobDoc' = Head(queue)
    /\ \E ok \in BOOLEAN :
         IF ok /\ db[Head(queue)] # NoDoc
           THEN /\ docRecord' = Loaded(db[Head(queue)])
                /\ pc' = "download"
                /\ UNCHANGED <<db, result, threw>>
           ELSE \* the query throws, or 'Document not found in DB'
                /\ db' = CatchBlock(db, Head(queue))
                /\ result' = "failed"
                /\ threw' = "lookup"
                /\ UNCHANGED <<pc, docRecord>>
    /\ UNCHANGED <<fileBuffer, extractedText, polls, pollStatus, moderation, summary>>
    /\ UNCHANGED <<s3, nextId, created, redelivered, up, tagReq, transcriptions, call,
                   index, gen, resp>>

\* downloadFileFromS3(docRecord.s3Key)
Download ==
    /\ pc = "download"
    /\ \E ok \in BOOLEAN :
         IF ok /\ Exists(s3, docRecord.rec.s3Key)
           THEN /\ fileBuffer' = s3[docRecord.rec.s3Key]
                /\ pc' = IF NeedsModeration(docRecord.rec.fileType)
                           THEN "moderate" ELSE "extract"
                /\ UNCHANGED <<db, jobDoc, docRecord, extractedText, polls,
                               pollStatus, moderation, summary, result, threw>>
           ELSE Throw("download")
    /\ UNCHANGED s3
    /\ UNCHANGED httpAndQueue

\* return value of checkContentModeration for a result that carries
\* `labels` moderation labels
Flagged(labels) == labels > 0

\* mutant of AfterModeration: the flagged branch does not return
AfterModerationFallsThrough(flagged) == "extract"

\* where the worker goes after checkContentModeration returned
AfterModeration(flagged) == IF flagged THEN "rejectDelete" ELSE "extract"

\* checkContentModeration, image branch: one DetectModerationLabels call
ModerateImage ==
    /\ pc = "moderate"
    /\ StartsWith(docRecord.rec.fileType, "image/")
    /\ \E ok \in BOOLEAN, labels \in 0..1 :
         IF ok
           THEN /\ moderation' = IF Flagged(labels) THEN "flagged" ELSE "clean"
                /\ pc' = AfterModeration(Flagged(labels))
                /\ UNCHANGED <<db, jobDoc, docRecord, fileBuffer, extractedText,
                               polls, pollStatus, summary, result, threw>>
           ELSE Throw("moderation")
    /\ UNCHANGED s3
    /\ UNCHANGED httpAndQueue

\* checkContentModeration, video branch: StartContentModeration
ModerateVideoStart ==
    /\ pc = "moderate"
    /\ ~StartsWith(docRecord.rec.fileType, "image/")
    /\ StartsWith(docRecord.rec.fileType, "video/")
    /\ \E ok \in BOOLEAN :
         IF ok
           THEN /\ pc' = "modPoll"
                /\ polls' = 0
                /\ UNCHANGED <<db, jobDoc, docRecord, fileBuffer, extractedText,
                               pollStatus, moderation, summary, result, threw>>
           ELSE Throw("moderation")
    /\ UNCHANGED s3
    /\ UNCHANGED httpAndQueue

\* one iteration of `for (let i = 0; i < 12; i++)`: sleep, GetContentModeration,
\* break on SUCCEEDED; with the return that follows the loop when it ends
ModerationPoll ==
    /\ pc = "modPoll"
    /\ polls < ModerationPollLimit
    /\ \E ok \in BOOLEAN, status \in {"IN_PROGRESS", "SUCCEEDED", "FAILED"}, labels \in 0..1 :
         IF ok
           THEN /\ polls' = polls + 1
                /\ pollStatus' = status
                /\ IF status = "SUCCEEDED"
                     THEN /\ moderation' = IF Flagged(labels) THEN "flagged" ELSE "clean"
                          /\ pc' = AfterModeration(Flagged(labels))
                     ELSE IF polls + 1 < ModerationPollLimit
                     THEN UNCHANGED <<moderation, pc>>
                     ELSE \* moderationLabels is still [] : returns false
                          /\ moderation' = "unfinished"
                          /\ pc' = AfterModeration(Flagged(0))
                /\ UNCHANGED <<db, jobDoc, docRecord, fileBuffer, extractedText,
                               summary, result, threw>>
           ELSE Throw("moderation")
    /\ UNCHANGED s3
    /\ UNCHANGED httpAndQueue

\* flagged: deleteFileFromS3(docRecord.s3Key); docRecord.status = '...'
RejectDelete ==
    /\ pc = "rejectDelete"
    /\ \E ok \in BOOLEAN :
         IF ok
           THEN /\ s3' = Remove(s3, docRecord.rec.s3Key)
                /\ docRecord' = Assign(docRecord, "status", ModerationStatus)
                /\ pc' = "rejectSave"
                /\ UNCHANGED <<db, jobDoc, fileBuffer, extractedText, polls,
                               pollStatus, moderation, summary, result, threw>>
           ELSE Throw("delete") /\ UNCHANGED s3
    /\ UNCHANGED httpAndQueue

\* flagged: await docRecord.save(); return;
RejectSave ==
    /\ pc = "rejectSave"
    /\ \E ok \in BOOLEAN :
         IF ok /\ ~SaveThrows(db[jobDoc], docRecord)
           THEN /\ db' = [db EXCEPT ![jobDoc] = Save(@, docRecord)]
                /\ Return
           ELSE Throw("save")
    /\ UNCHANGED s3
    /\ UNCHANGED httpAndQueue

\* where the worker goes once TextExtraction has returned `text`:
\* `if (extractedText && extractedText.length > 0)`
AfterExtraction(text) == IF text # <<>> THEN "upload" ELSE "commit"

\* the summarizing revision uploads the text whatever TextExtraction returned
AfterExtractionAlways(text) == "uploadAlways"

\* the statement that follows `await TextExtraction(...)` in a revision of
\* the processor
AfterTextExtraction(revision, text) ==
    IF revision = "summarizing" THEN AfterExtractionAlways(text)
    ELSE AfterExtraction(text)

\* TextExtraction for the strategies that answer in one call: Textract,
\* the local parsers, and the UTF-8 decoding of the downloaded buffer
\* (`texts` are the texts a capability may return, `revision` is the revision
\* of the processor that awaits the text)
ExtractDirectOf(texts, revision) ==
    /\ pc = "extract"
    /\ Strategy(docRecord.rec.fileType, docRecord.rec.s3Key) # "transcribe"
    /\ \E ok \in BOOLEAN, parsed \in texts :
         LET strategy == Strategy(docRecord.rec.fileType, docRecord.rec.s3Key)
             text == IF strategy = "utf8" THEN fileBuffer ELSE parsed
         IN IF ok \/ strategy = "utf8"
              THEN /\ extractedText' = text
                   /\ pc' = AfterTextExtraction(revision, text)
                   /\ UNCHANGED <<db, jobDoc, docRecord, fileBuffer, polls,
                                  pollStatus, moderation, summary, result, threw>>
              ELSE Throw("extraction")
    /\ UNCHANGED s3
    /\ UNCHANGED httpAndQueue

ExtractDirect == ExtractDirectOf(Texts, "moderating")

\* const jobName = `transcribe-${uuidv4()}` of the n-th transcription
JobName(n) ==
    <<"t", "r", "a", "n", "s", "c", "r", "i", "b", "e", "-">> \o uuidv4(n)

\* the key of the transcript file Transcribe writes into OutputBucketName,
\* which the worker reads back from TranscriptFileUri
TranscriptFileKey(jobName) == jobName \o <<".", "j", "s", "o", "n">>

\* extractTextWithAWS, audio/video branch: StartTranscriptionJob
TranscribeStart ==
    /\ pc = "extract"
    /\ Strategy(docRecord.rec.fileType, docRecord.rec.s3Key) = "transcribe"
    /\ transcriptions' = transcriptions + 1
    /\ \E ok \in BOOLEAN :
         IF ok
           THEN /\ pc' = "transcribePoll"
                /\ polls' = 0
                /\ pollStatus' = "none"
                /\ UNCHANGED <<db, jobDoc, docRecord, fileBuffer, extractedText,
                               moderation, summary, result, threw>>
           ELSE Throw("extraction")
    /\ UNCHANGED s3
    /\ UNCHANGED <<queue, nextId, created, redelivered, up, tagReq, call,
                   index, gen, resp>>

\* one iteration of `while (!jobCompleted)`: sleep, GetTranscriptionJob; on
\* COMPLETED the transcript file, which Transcribe has written into the
\* bucket, is downloaded and parsed; on FAILED the loop throws
TranscribePollOf(texts, revision) ==
    /\ pc = "transcribePoll"
    /\ polls < MaxPolls
    /\ \E ok \in BOOLEAN, status \in {"IN_PROGRESS", "COMPLETED", "FAILED"},
          fetched \in BOOLEAN, transcript \in texts :
         IF ~ok \/ status = "FAILED"
           THEN Throw("extraction") /\ UNCHANGED s3
           ELSE IF status = "COMPLETED"
           THEN /\ s3' = Put(s3, TranscriptFileKey(JobName(transcriptions)), transcript)
                /\ IF fetched
                     THEN /\ polls' = 0             \* the loop's locals are gone
                          /\ pollStatus' = "none"
                          /\ extractedText' = s3'[TranscriptFileKey(JobName(transcriptions))]
                          /\ pc' = AfterTextExtraction(revision, extractedText')
                          /\ UNCHANGED <<db, jobDoc, docRecord, fileBuffer, moderation,
                                         summary, result, threw>>
                     ELSE Throw("extraction")
           ELSE /\ polls' = polls + 1
                /\ pollStatus' = status
                /\ UNCHANGED <<s3, db, jobDoc, docRecord, fileBuffer, moderation,
                               summary, result, threw, extractedText, pc>>
    /\ UNCHANGED httpAndQueue

TranscribePoll == TranscribePollOf(Texts, "moderating")

\* non-empty text: uploadFileToS3(transcriptKey, ...), then textS3Key and
\* embedding are assigned on the loaded document
UploadText ==
    /\ pc = "upload"
    /\ \E ok \in BOOLEAN :
         LET transcriptKey == TranscriptKey(docRecord.rec.s3Key, docRecord.rec.fileType)
             embedding == generateEmbedding(CleanText(extractedText))
         IN IF ok
              THEN /\ s3' = Put(s3, transcriptKey, extractedText)
                   /\ docRecord' = Assign(Assign(docRecord, "textS3Key", transcriptKey),
                                          "embedding", embedding)
                   /\ pc' = "commit"
                   /\ UNCHANGED <<db, jobDoc, fileBuffer, extractedText, polls,
                                  pollStatus, moderation, summary, result, threw>>
              ELSE Throw("upload") /\ UNCHANGED s3
    /\ UNCHANGED httpAndQueue

\* docRecord.status = 'processed'; await docRecord.save();
Commit ==
    /\ pc = "commit"
    /\ \E ok \in BOOLEAN :
         LET doc == Assign(docRecord, "status", ProcessedStatus)
         IN IF ok /\ ~SaveThrows(db[jobDoc], doc)
              THEN /\ db' = [db EXCEPT ![jobDoc] = Save(@, doc)]
                   /\ Return
              ELSE Throw("save")
    /\ UNCHANGED s3
    /\ UNCHANGED httpAndQueue

Next ==
    \/ UploadPut
    \/ UploadCreate
    \/ TagsLoad
    \/ TagsSave
    \/ DeleteDocument
    \/ Redeliver
    \/ JobStart
    \/ Download
    \/ ModerateImage
    \/ ModerateVideoStart
    \/ ModerationPoll
    \/ RejectDelete
    \/ RejectSave
    \/ ExtractDirect
    \/ TranscribeStart
    \/ TranscribePoll
    \/ UploadText
    \/ Commit

Spec == Init /\ [][Next]_vars

\* ------------------------------------- the worker, summarizing revision
\* (services/docProcessingQueue.js: no moderation, the text is uploaded
\* whatever it is, a summary is generated, no embedding)

\* fullText.slice(0, 50)
SliceLimit == 50
slice(text, n) == SubSeq(text, 1, IF Len(text) < n THEN Len(text) ELSE n)

\* a text longer than what the placeholder keeps
LongText == [i \in 1..(SliceLimit + 1) |-> IF i <= SliceLimit THEN 66 ELSE 67]

\* what a capability may return to the summarizing worker
SummarizedTexts == Texts \cup {LongText}

\* 'Summary placeholder for text: '
FallbackMarker ==
    << 83, 117, 109, 109, 97, 114, 121, 32, 112, 108, 97, 99, 101, 104,
       111, 108, 100, 101, 114, 32, 102, 111, 114, 32, 116, 101, 120,
       116, 58, 32 >>

\* `Summary placeholder for text: ${fullText.slice(0, 50)}...`
Placeholder(fullText) == FallbackMarker \o slice(fullText, SliceLimit) \o <<46, 46, 46>>

\* response.OutputText || "" ; NoText stands for a response without OutputText
OutputTextOrEmpty(outputText) == IF outputText = NoText THEN <<>> ELSE outputText

\* mutant of SummarizationFailed: the error of the model call is not caught
SummarizationRethrows(fullText) == [threw |-> TRUE, summary |-> NoSummary]

\* Summarization, catch branch: the placeholder is returned
SummarizationFailed(fullText) == [threw |-> FALSE, summary |-> Placeholder(fullText)]

\* downloadFileFromS3(docRecord.s3Key); the extraction follows
SumDownload ==
    /\ pc = "download"
    /\ \E ok \in BOOLEAN :
         IF ok /\ Exists(s3, docRecord.rec.s3Key)
           THEN /\ fileBuffer' = s3[docRecord.rec.s3Key]
                /\ pc' = "extract"
                /\ UNCHANGED <<db, jobDoc, docRecord, extractedText, polls,
                               pollStatus, moderation, summary, result, threw>>
           ELSE Throw("download")
    /\ UNCHANGED s3
    /\ UNCHANGED httpAndQueue

SumExtractDirect == ExtractDirectOf(SummarizedTexts, "summarizing")

SumTranscribePoll == TranscribePollOf(SummarizedTexts, "summarizing")

\* `text/${baseName}_transcript.txt`
SumTranscriptKey(originalKey) ==
    TextDir \o BaseName(split(originalKey, "/")[2]) \o TranscriptSuffix("audio/")

\* uploadFileToS3(transcriptKey, Buffer.from(extractedText, 'utf8'))
SumUploadText ==
    /\ pc = "uploadAlways"
    /\ \E ok \in BOOLEAN :
         IF ok
           THEN /\ s3' = Put(s3, SumTranscriptKey(docRecord.rec.s3Key), extractedText)
                /\ pc' = "summarize"
                /\ UNCHANGED <<db, jobDoc, docRecord, fileBuffer, extractedText, polls,
                               pollStatus, moderation, summary, result, threw>>
           ELSE Throw("upload") /\ UNCHANGED s3
    /\ UNCHANGED httpAndQueue

\* const summary = await Summarization(extractedText); await LLMIntegration(...)
Summarize ==
    /\ pc = "summarize"
    /\ \E ok \in BOOLEAN, outputText \in {NoText, <<>>, <<83>>} :
         LET answer == IF ok
                         THEN [threw |-> FALSE, summary |-> OutputTextOrEmpty(outputText)]
                         ELSE SummarizationFailed(extractedText)
         IN IF answer.threw
              THEN Throw("summarization")
              ELSE /\ summary' = answer.summary
                   /\ pc' = "commitSummary"
                   /\ UNCHANGED <<db, jobDoc, docRecord, fileBuffer, extractedText, polls,
                                  pollStatus, moderation, result, threw>>
    /\ UNCHANGED s3
    /\ UNCHANGED httpAndQueue

\* docRecord.textS3Key = transcriptKey; docRecord.summary = summary;
\* docRecord.status = 'processed'; await docRecord.save();
SumCommit ==
    /\ pc = "commitSummary"
    /\ \E ok \in BOOLEAN :
         LET doc == Assign(Assign(Assign(docRecord,
                        "textS3Key", SumTranscriptKey(docRecord.rec.s3Key)),
                        "summary", summary),
                        "status", ProcessedStatus)
         IN IF ok /\ ~SaveThrows(db[jobDoc], doc)
              THEN /\ db' = [db EXCEPT ![jobDoc] = Save(@, doc)]
                   /\ Return
              ELSE Throw("save")
    /\ UNCHANGED s3
    /\ UNCHANGED httpAndQueue

NextSummarizing ==
    \/ UploadPut
    \/ UploadCreate
    \/ TagsLoad
    \/ TagsSave
    \/ DeleteDocument
    \/ Redeliver
    \/ JobStart
    \/ SumDownload
    \/ SumExtractDirect
    \/ TranscribeStart
    \/ SumTranscribePoll
    \/ SumUploadText
    \/ Summarize
    \/ SumCommit

SpecSummarizing == Init /\ [][NextSummarizing]_vars

\* ------------------------------------------- the functions of the worker
\* (called on their own, on arguments drawn from FileTypes, FileNames and ids)

MaxUuids == 2

\* content types: the ones TextExtraction names, the prefixes it passes on
\* itself, and types it does not know
FileTypes ==
    {"image/png", "image/", "video/mp4", "audio/mpeg", "text/plain",
     "application/octet-stream", "application/pdf", "text/csv",
     "application/vnd.ms-excel",
     "application/vnd.openxmlformats-officedocument.spreadsheetml.sheet",
     "application/msword",
     "application/vnd.openxmlformats-officedocument.wordprocessingml.document",
     "Image/PNG", "application/json"}

\* original file names: with the extensions TextExtraction looks for, in
\* upper case, with no extension, with two dots, with a '/' inside
FileNames ==
    { <<"a", ".", "p", "n", "g">>,
      <<"a", ".", "m", "p", "3">>,
      <<"a", ".", "M", "P", "3">>,
      <<"a", ".", "w", "a", "v">>,
      <<"a", ".", "m", "p", "4">>,
      <<"a", ".", "m", "o", "v">>,
      <<"a", ".", "t", "x", "t">>,
      <<"a">>,
      <<"a", ".", "b", ".", "m", "p", "3">>,
      <<"a", "/", "b", ".", "m", "p", "3">> }

\* the arguments of a call: two uploads (content type, file name, uuid) and
\* what Rekognition would answer
Arguments ==
    [ op : {"arguments"},
      fileType : FileTypes, originalname : FileNames, id : 1..MaxUuids,
      fileType2 : {"audio/mpeg", "text/plain"}, originalname2 : FileNames,
      id2 : 1..MaxUuids ]

InitFunctions == InitProgram /\ call \in Arguments

\* checkContentModeration, as a function of the content type and of the
\* number of labels Rekognition reports (for a video: in a SUCCEEDED poll)
checkContentModeration(fileType, labels) ==
    IF StartsWith(fileType, "image/") THEN Flagged(labels)
    ELSE IF StartsWith(fileType, "video/") THEN Flagged(labels)
    ELSE FALSE

\* TextExtraction(fileBuffer, fileType, bucket, s3Key): the strategy it takes
CallTextExtraction ==
    /\ call.op = "arguments"
    /\ call' = [op |-> "TextExtraction", fileType |-> call.fileType,
                originalname |-> call.originalname,
                s3Key |-> FileKey(call.id, call.originalname),
                strategy |-> Strategy(call.fileType, FileKey(call.id, call.originalname))]
    /\ UNCHANGED programVars

\* the transcriptKey the worker computes for each of the two uploads
CallTranscriptKey ==
    /\ call.op = "arguments"
    /\ call' = [op |-> "TranscriptKey",
                fileType |-> call.fileType, fileType2 |-> call.fileType2,
                originalname |-> call.originalname, originalname2 |-> call.originalname2,
                id |-> call.id, id2 |-> call.id2,
                s3Key |-> FileKey(call.id, call.originalname),
                s3Key2 |-> FileKey(call.id2, call.originalname2),
                transcriptKey |-> TranscriptKey(FileKey(call.id, call.originalname),
                                                call.fileType),
                transcriptKey2 |-> TranscriptKey(FileKey(call.id2, call.originalname2),
                                                 call.fileType2)]
    /\ UNCHANGED programVars

\* checkContentModeration on content that Rekognition reports `labels` for
CallCheckContentModeration ==
    /\ call.op = "arguments"
    /\ \E labels \in 0..1 :
         call' = [op |-> "checkContentModeration", fileType |-> call.fileType,
                  labels |-> labels,
                  flagged |-> checkContentModeration(call.fileType, labels)]
    /\ UNCHANGED programVars

\* mutant of generateEmbeddingOfController: the sum is not averaged
EmbeddingOfSum(text) ==
    LET sum == SumCodes(text)
    IN <<  <<sum, 1>>, <<sum, 2>>, <<sum, 3>>  >>

\* generateEmbedding of generateFromPrompt (the copy the retrieval path
\* applies to the cleaned texts and to the prompt)
generateEmbeddingOfController(text) ==
    LET sum == SumCodes(text)
        avg == <<sum, IF Len(text) = 0 THEN 1 ELSE Len(text)>>
    IN <<  avg, <<avg[1], avg[2] * 2>>, <<avg[1], avg[2] * 3>>  >>

\* both copies of generateEmbedding on one string, the worker's one twice
CallGenerateEmbedding ==
    /\ call.op = "arguments"
    /\ \E text \in SummarizedTexts :
         call' = [op |-> "generateEmbedding", text |-> text,
                  worker |-> generateEmbedding(text),
                  again |-> generateEmbedding(text),
                  controller |-> generateEmbeddingOfController(text)]
    /\ UNCHANGED programVars

\* MinConfidence of the commands checkContentModeration sends
MinConfidence == 80

\* what rekognitionClient.send answers to DetectModerationLabels: the
\* ModerationLabels member may be absent, empty, or name labels
DetectResponses ==
    { [present |-> FALSE, ModerationLabels |-> <<>>],
      [present |-> TRUE, ModerationLabels |-> <<>>],
      [present |-> TRUE, ModerationLabels |-> <<"Explicit Nudity">>],
      [present |-> TRUE, ModerationLabels |-> <<"Explicit Nudity", "Violence">>] }

\* mutant of ModerationLabelsFound: one label is not enough
MoreThanOneLabelFound(response) ==
    response.present /\ Len(response.ModerationLabels) > 1

\* response.ModerationLabels && response.ModerationLabels.length > 0, as the
\* caller's `if (isNSFW)` reads it (undefined counts as false)
ModerationLabelsFound(response) ==
    response.present /\ Len(response.ModerationLabels) > 0

\* the commands the image branch of checkContentModeration sends
ImageModerationCommands ==
    << [command |-> "DetectModerationLabels", MinConfidence |-> MinConfidence] >>

\* checkContentModeration on an image: the commands sent, the response to
\* the last of them, and the value returned
CallCheckImageModeration ==
    /\ call.op = "arguments"
    /\ StartsWith(call.fileType, "image/")
    /\ \E response \in DetectResponses :
         call' = [op |-> "checkImageModeration", fileType |-> call.fileType,
                  sent |-> ImageModerationCommands,
                  response |-> response,
                  isNSFW |-> ModerationLabelsFound(response)]
    /\ UNCHANGED programVars

NextFunctions ==
    \/ CallTextExtraction
    \/ CallTranscriptKey
    \/ CallCheckContentModeration
    \/ CallGenerateEmbedding
    \/ CallCheckImageModeration

SpecFunctions == InitFunctions /\ [][NextFunctions]_vars

\* ------------------------------------------- the HTTP handlers, answered

\* a document that was uploaded as a.txt, and what the worker made of it:
\* nothing yet, processed with its text ' B', or processed as an empty file
StoredKinds == {"absent", "uploaded", "processed", "processedEmpty"}

StoredKey(d) == FileKey(d, <<"a", ".", "t", "x", "t">>)

\* the bytes of the upload: a text file is its own extracted text
StoredContent(kind) == IF kind = "processedEmpty" THEN <<>> ELSE <<32, 66>>

StoredRecord(d, kind) ==
    LET new == NewDocument("text/plain", StoredKey(d), <<>>)
        withText == Assign(Assign(Loaded(new),
                                  "textS3Key", TranscriptKey(StoredKey(d), "text/plain")),
                           "embedding", generateEmbedding(CleanText(StoredContent(kind))))
    IN CASE kind = "absent" -> NoDoc
         [] kind = "uploaded" -> new
         [] kind = "processed" -> Save(new, Assign(withText, "status", ProcessedStatus))
         [] kind = "processedEmpty" ->
               Save(new, Assign(Loaded(new), "status", ProcessedStatus))

\* the blobs of the stored documents: the original of each, and the text of
\* a document whose text was stored
RECURSIVE StoredBlobs(_, _)
StoredBlobs(kinds, d) ==
    IF d = 0 THEN <<>>
    ELSE LET before == Put(StoredBlobs(kinds, d - 1), StoredKey(d),
                           StoredContent(kinds[d]))
         IN IF kinds[d] = "processed"
              THEN Put(before, TranscriptKey(StoredKey(d), "text/plain"),
                       StoredContent(kinds[d]))
              ELSE before

\* the server with an idle worker and an empty queue: either nothing was
\* ever uploaded, or MaxStored documents were (some deleted since)
InitApi ==
    /\ \/ /\ db = [d \in 1..MaxStored |-> NoDoc]
          /\ s3 = <<>>
          /\ nextId = 1
          /\ created = {}
       \/ \E kinds \in [1..MaxStored -> StoredKinds] :
             /\ db = [d \in 1..MaxStored |-> StoredRecord(d, kinds[d])]
             /\ s3 = StoredBlobs(kinds, MaxStored)
             /\ nextId = MaxStored + 1
             /\ created = 1..MaxStored
    /\ queue = <<>>
    /\ redelivered = 0
    /\ up = NoReq
    /\ tagReq = NoReq
    /\ pc = "idle"
    /\ jobDoc = 0
    /\ docRecord = Loaded(NoDoc)
    /\ fileBuffer = NoText
    /\ extractedText = NoText
    /\ polls = 0
    /\ pollStatus = "none"
    /\ moderation = "none"
    /\ summary = NoSummary
    /\ result = "none"
    /\ threw = "none"
    /\ transcriptions = 0
    /\ call = NoCall
    /\ index = NoIndex
    /\ gen = [r \in Calls |-> NoGen]
    /\ resp = NoResponse

\* what the HTTP handlers below leave alone
workerVars == <<queue, redelivered, pc, jobDoc, docRecord, fileBuffer, extractedText,
                polls, pollStatus, moderation, summary, result, threw,
                transcriptions, call>>

\* req.file of the upload requests: none, a shell script (a.sh, a.SH, and
\* one named .sh), or one of the uploads of the model
RequestFiles ==
    { [present |-> FALSE, mimetype |-> "none", originalname |-> <<>>],
      [present |-> TRUE, mimetype |-> "text/plain", originalname |-> <<"a", ".", "s", "h">>],
      [present |-> TRUE, mimetype |-> "text/plain", originalname |-> <<"a", ".", "S", "H">>],
      [present |-> TRUE, mimetype |-> "text/plain", originalname |-> <<".", "s", "h">>] }
    \cup { [present |-> TRUE, mimetype |-> kind[1], originalname |-> kind[2]] :
             kind \in UploadKinds }

\* mutant of HasFile: the request is taken to carry a file
HasFileAlways(file) == TRUE

\* the test of `if (!req.file)`
HasFile(file) == file.present

disallowedExtensions ==
    { <<".", "e", "x", "e">>, <<".", "b", "a", "t">>, <<".", "s", "h">>,
      <<".", "m", "s", "i">>, <<".", "c", "m", "d">> }

\* path.extname: from the last '.' on, unless there is none or the name
\* starts with it
extname(name) ==
    LET dots == {i \in 1..Len(name) : name[i] = "."}
    IN IF dots = {} THEN <<>>
       ELSE LET last == CHOOSE i \in dots : \A j \in dots : j <= i
            IN IF last = 1 THEN <<>> ELSE SubSeq(name, last, Len(name))

\* uploadDocument up to its first await: the two 400 answers, the TypeError
\* of req.file.originalname when there is no file (caught: 500), or the
\* upload of the blob
UploadRequest ==
    \E file \in RequestFiles :
       IF ~HasFile(file)
         THEN /\ Respond("upload without file", 0, 400, "No file provided.", {})
              /\ UNCHANGED <<db, s3, nextId, created, up, tagReq, index, gen>>
              /\ UNCHANGED workerVars
         ELSE IF ~file.present
           THEN /\ Respond("upload without file", 0, 500, "Upload failed.", {})
                /\ UNCHANGED <<db, s3, nextId, created, up, tagReq, index, gen>>
                /\ UNCHANGED workerVars
         ELSE IF extname(toLowerCase(file.originalname)) \in disallowedExtensions
           THEN /\ Respond("upload", 0, 400, "Executable files are not allowed.", {})
                /\ UNCHANGED <<db, s3, nextId, created, up, tagReq, index, gen>>
                /\ UNCHANGED workerVars
         ELSE UploadFileOf(<<file.mimetype, file.originalname>>, TRUE)

\* uploadDocument from DocumentModel.create to its answer
UploadRespond == UploadCreateOf(TRUE, BOOLEAN)

\* req.body.tags of the tag requests: an array, or the string 'tag1,tag2'
TagInputs ==
    { [array |-> TRUE, value |-> <<>>],
      [array |-> TRUE, value |-> <<"t">>],
      [array |-> TRUE, value |-> <<"t", "u">>],
      [array |-> FALSE, value |-> <<"tag1,tag2">>] }

\* mutant of TagsOf: a value that is no array is stored as it came
TagsOfAnyValue(tags) == tags.value

\* Array.isArray(tags) ? tags : []
TagsOf(tags) == IF tags.array THEN tags.value ELSE <<>>

\* addOrUpdateTags up to the end of `await DocumentModel.findById(docId)`:
\* 404 for an id without a record, else the tags are assigned
TagsRequest ==
    /\ tagReq = NoReq
    /\ \E d \in DOMAIN db, tags \in TagInputs :
         IF db[d] = NoDoc
           THEN /\ Respond("tags", d, 404, "Document not found.", {})
                /\ UNCHANGED tagReq
           ELSE /\ db[d].version < MaxVersion
                /\ tagReq' = [id |-> d, doc |-> Assign(Loaded(db[d]), "tags", TagsOf(tags)),
                              supplied |-> tags]
                /\ UNCHANGED resp
    /\ UNCHANGED <<db, s3, nextId, created, up, index, gen>>
    /\ UNCHANGED workerVars

\* addOrUpdateTags: `await doc.save()` and the response
TagsRespond ==
    /\ tagReq # NoReq
    /\ \E ok \in BOOLEAN :
         IF ok /\ ~SaveThrows(db[tagReq.id], tagReq.doc)
           THEN /\ db' = [db EXCEPT ![tagReq.id] = Save(@, tagReq.doc)]
                /\ Respond("tags", tagReq.id, 200, "none", {})
           ELSE /\ Respond("tags", tagReq.id, 500, "Tag update failed.", {})
                /\ UNCHANGED db
    /\ tagReq' = NoReq
    /\ UNCHANGED <<s3, nextId, created, up, index, gen>>
    /\ UNCHANGED workerVars

\* getDocumentStatus
GetDocumentStatus ==
    /\ \E d \in DOMAIN db, ok \in BOOLEAN :
         IF ~ok THEN Respond("status", d, 500, "Status check failed.", {})
         ELSE IF db[d] = NoDoc THEN Respond("status", d, 404, "Document not found.", {})
         ELSE Respond("status", d, 200, "none", {d})
    /\ UNCHANGED <<db, s3, nextId, created, up, tagReq, index, gen>>
    /\ UNCHANGED workerVars

\* the tags of the search requests: none, or a list that the documents
\* found must all carry
SearchTags == {<<>>, <<"t">>}

\* DocumentModel.find(query): the ids of the records that match
Find(store, tagList) ==
    {d \in DOMAIN store :
        /\ store[d] # NoDoc
        /\ \A i \in 1..Len(tagList) :
              \E j \in 1..Len(store[d].tags) : store[d].tags[j] = tagList[i]}

\* searchDocuments
SearchDocuments ==
    /\ \E tagList \in SearchTags, ok \in BOOLEAN :
         IF ok THEN Respond("search", 0, 200, "none", Find(db, tagList))
         ELSE Respond("search", 0, 500, "Search failed.", {})
    /\ UNCHANGED <<db, s3, nextId, created, up, tagReq, index, gen>>
    /\ UNCHANGED workerVars

\* mutant of findByIdAndDelete: the record is found and left in the store
findByIdOnly(store, d) == store

\* DocumentModel.findByIdAndDelete(docId): the store without the record
findByIdAndDelete(store, d) == [store EXCEPT ![d] = NoDoc]

\* deleteDocument
DeleteRequest ==
    /\ \E d \in DOMAIN db, ok \in BOOLEAN :
         IF ~ok
           THEN /\ Respond("delete", d, 500, "Deletion failed.", {})
                /\ UNCHANGED db
         ELSE IF db[d] = NoDoc
           THEN /\ Respond("delete", d, 404, "Document not found.", {})
                /\ UNCHANGED db
         ELSE /\ db' = findByIdAndDelete(db, d)
              /\ Respond("delete", d, 200, "none", {})
    /\ UNCHANGED <<s3, nextId, created, up, tagReq, index, gen>>
    /\ UNCHANGED workerVars

\* ------------------------------------------------ generateFromPrompt

\* process.env.ACCESS_TOKEN_SECRET, and the secrets the requests carry
AccessTokenSecret == "secret"

ProvidedSecrets == {"secret", "wrong-secret"}

\* mutant of Authorized: every secret is accepted
AuthorizedAlways(providedSecret) == TRUE

\* the test of `if (providedSecret !== process.env.ACCESS_TOKEN_SECRET)`
Authorized(providedSecret) == providedSecret = AccessTokenSecret

\* a request that has passed the check of the secret
StartedGen(providedSecret) ==
    [pc |-> "exists", secret |-> providedSecret, docs |-> <<>>, i |-> 0, cleaned |-> <<>>]

\* the catch block: 500 'Failed to generate answer'
GenFail(r) ==
    /\ gen' = [gen EXCEPT ![r] = NoGen]
    /\ Respond("generate", 0, 500, "Failed to generate answer", {})

\* what generateFromPrompt has no statement to change
genFrame == <<db, s3, nextId, created, up, tagReq>>

\* generateFromPrompt up to its first await: the check of the secret
GenStart(r) ==
    /\ gen[r] = NoGen
    /\ \A q \in 1..(r - 1) : gen[q] # NoGen
    /\ \E providedSecret \in ProvidedSecrets :
         IF ~Authorized(providedSecret)
           THEN /\ Respond("generate", 0, 401, "Unauthorized", {})
                /\ UNCHANGED gen
           ELSE /\ gen' = [gen EXCEPT ![r] = StartedGen(providedSecret)]
                /\ UNCHANGED resp
    /\ UNCHANGED index
    /\ UNCHANGED genFrame
    /\ UNCHANGED workerVars

\* ensureDocumentsIndex: client.indices.exists
EnsureExists(r) ==
    /\ gen[r].pc = "exists"
    /\ \E ok \in BOOLEAN :
         IF ok
           THEN /\ gen' = [gen EXCEPT ![r].pc = IF index.exists THEN "delete" ELSE "create"]
                /\ UNCHANGED resp
           ELSE GenFail(r)
    /\ UNCHANGED index
    /\ UNCHANGED genFrame
    /\ UNCHANGED workerVars

\* ensureDocumentsIndex: client.indices.delete, which is rejected when the
\* index is no longer there
EnsureDelete(r) ==
    /\ gen[r].pc = "delete"
    /\ \E ok \in BOOLEAN :
         IF ok /\ index.exists
           THEN /\ index' = NoIndex
                /\ gen' = [gen EXCEPT ![r].pc = "create"]
                /\ UNCHANGED resp
           ELSE GenFail(r) /\ UNCHANGED index
    /\ UNCHANGED genFrame
    /\ UNCHANGED workerVars

\* ensureDocumentsIndex: client.indices.create, which is rejected when the
\* index is there already
EnsureCreate(r) ==
    /\ gen[r].pc = "create"
    /\ \E ok \in BOOLEAN :
         IF ok /\ ~index.exists
           THEN /\ index' = [exists |-> TRUE, entries |-> <<>>]
                /\ gen' = [gen EXCEPT ![r].pc = "find"]
                /\ UNCHANGED resp
           ELSE GenFail(r) /\ UNCHANGED index
    /\ UNCHANGED genFrame
    /\ UNCHANGED workerVars

\* DocumentModel.find({ status: 'processed' }): the documents loaded, by id
RECURSIVE ProcessedDocs(_, _)
ProcessedDocs(store, d) ==
    IF d = 0 THEN <<>>
    ELSE IF store[d] # NoDoc /\ store[d].status = ProcessedStatus
           THEN Append(ProcessedDocs(store, d - 1), [id |-> d, rec |-> store[d]])
           ELSE ProcessedDocs(store, d - 1)

\* where a loop over gen.docs goes after the element at i
NextInLoop(g, after) ==
    IF g.i < Len(g.docs) THEN [g EXCEPT !.i = g.i + 1]
    ELSE [g EXCEPT !.pc = after, !.i = 1]

\* generateFromPrompt: the find of the processed documents
GenFind(r) ==
    /\ gen[r].pc = "find"
    /\ \E ok \in BOOLEAN :
         IF ok
           THEN LET docs == ProcessedDocs(db, Len(db))
                IN /\ gen' = [gen EXCEPT ![r].docs = docs, ![r].i = 1,
                                         ![r].pc = IF docs = <<>> THEN "refresh"
                                                   ELSE "download"]
                   /\ UNCHANGED resp
           ELSE GenFail(r)
    /\ UNCHANGED index
    /\ UNCHANGED genFrame
    /\ UNCHANGED workerVars

\* the key of the text of a document: textS3Key if it has one, else s3Key
TextKeyOf(rec) == IF rec.textS3Key # NoKey THEN rec.textS3Key ELSE rec.s3Key

\* mutant of GenDownload: the cleaned text is saved with the document
GenDownloadSaving(r) ==
    /\ gen[r].pc = "download"
    /\ LET doc == gen[r].docs[gen[r].i]
       IN /\ Exists(s3, TextKeyOf(doc.rec))
          /\ gen' = [gen EXCEPT ![r] =
                        NextInLoop([@ EXCEPT !.cleaned =
                                       Append(@, CleanText(s3[TextKeyOf(doc.rec)]))],
                                   "index")]
          /\ db' = [db EXCEPT ![doc.id] =
                       Save(@, Assign(Loaded(doc.rec), "status", "indexed"))]
    /\ UNCHANGED <<resp, index, s3, nextId, created, up, tagReq>>
    /\ UNCHANGED workerVars

\* generateFromPrompt: the download of the text of one document, and
\* doc.cleanedText = text.replace(/\s+/g, ' ').trim()
GenDownload(r) ==
    /\ gen[r].pc = "download"
    /\ \E ok \in BOOLEAN :
         LET doc == gen[r].docs[gen[r].i]
         IN IF ok /\ Exists(s3, TextKeyOf(doc.rec))
              THEN /\ gen' = [gen EXCEPT ![r] =
                                NextInLoop([@ EXCEPT !.cleaned =
                                               Append(@, CleanText(s3[TextKeyOf(doc.rec)]))],
                                           "index")]
                   /\ UNCHANGED resp
              ELSE GenFail(r)
    /\ UNCHANGED index
    /\ UNCHANGED genFrame
    /\ UNCHANGED workerVars

\* mutant of IndexPut: the entry is added under an id of its own
IndexAdd(entries, id, body) ==
    Append(entries, [id |-> id, embedding |-> body.embedding, text |-> body.text])

\* opensearchClient.index({ index, id, body }): the entry of this id is
\* replaced, or added when there is none
IndexPut(entries, id, body) ==
    LET Other(entry) == entry.id # id
    IN Append(SelectSeq(entries, Other),
              [id |-> id, embedding |-> body.embedding, text |-> body.text])

\* the body generateFromPrompt indexes for the document at i
IndexBody(g) ==
    [embedding |-> generateEmbeddingOfController(g.cleaned[g.i]), text |-> g.cleaned[g.i]]

\* generateFromPrompt: the indexing of one document; writing to an index
\* that does not exist creates it
GenIndex(r) ==
    /\ gen[r].pc = "index"
    /\ \E ok \in BOOLEAN :
         IF ok
           THEN /\ index' = [exists |-> TRUE,
                             entries |-> IndexPut(index.entries,
                                                  gen[r].docs[gen[r].i].id,
                                                  IndexBody(gen[r]))]
                /\ gen' = [gen EXCEPT ![r] = NextInLoop(@, "refresh")]
                /\ UNCHANGED resp
           ELSE GenFail(r) /\ UNCHANGED index
    /\ UNCHANGED genFrame
    /\ UNCHANGED workerVars

\* generateFromPrompt: opensearchClient.indices.refresh
GenRefresh(r) ==
    /\ gen[r].pc = "refresh"
    /\ \E ok \in BOOLEAN :
         IF ok /\ index.exists
           THEN /\ gen' = [gen EXCEPT ![r].pc = "search"]
                /\ UNCHANGED resp
           ELSE GenFail(r)
    /\ UNCHANGED index
    /\ UNCHANGED genFrame
    /\ UNCHANGED workerVars

\* `size: 5` of the search payload
SearchSize == 5

\* the ids of the hits of the search: match_all returns every entry when
\* there are at most SearchSize, and SearchSize of them otherwise
Hits(entries) ==
    LET ids == {entries[k].id : k \in 1..Len(entries)}
    IN IF Cardinality(ids) <= SearchSize THEN ids
       ELSE CHOOSE h \in SUBSET ids : Cardinality(h) = SearchSize

\* generateFromPrompt: the search and the answer
GenSearch(r) ==
    /\ gen[r].pc = "search"
    /\ \E ok \in BOOLEAN :
         IF ok /\ index.exists
           THEN /\ Respond("generate", 0, 200, "none", Hits(index.entries))
                /\ gen' = [gen EXCEPT ![r] = NoGen]
           ELSE GenFail(r)
    /\ UNCHANGED index
    /\ UNCHANGED genFrame
    /\ UNCHANGED workerVars

NextApi ==
    \/ UploadRequest
    \/ UploadRespond
    \/ TagsRequest
    \/ TagsRespond
    \/ GetDocumentStatus
    \/ SearchDocuments
    \/ DeleteRequest

SpecApi == InitApi /\ [][NextApi]_vars

NextRetrieval ==
    \/ DeleteRequest
    \/ \E r \in Calls : GenStart(r)
    \/ \E r \in Calls : EnsureExists(r)
    \/ \E r \in Calls : EnsureDelete(r)
    \/ \E r \in Calls : EnsureCreate(r)
    \/ \E r \in Calls : GenFind(r)
    \/ \E r \in Calls : GenDownload(r)
    \/ \E r \in Calls : GenIndex(r)
    \/ \E r \in Calls : GenRefresh(r)
    \/ \E r \in Calls : GenSearch(r)

SpecRetrieval == InitApi /\ [][NextRetrieval]_vars

TypeOK ==
    /\ pc \in {"idle", "download", "moderate", "modPoll", "rejectDelete",
               "rejectSave", "extract", "transcribePoll", "upload", "commit",
               "uploadAlways", "summarize", "commitSummary"}
    /\ polls \in 0..MaxPolls

\* ------------------------------------------------------------- properties

\* a step in which the processor of a job ends (by return or by exception)
JobEnds ==
    \/ pc # "idle" /\ pc' = "idle"
    \/ pc = "idle" /\ pc' = "idle" /\ Len(queue') < Len(queue)

ExtractionStages == {"extract", "transcribePoll", "upload", "commit"}

\* C1: once the stored status of a document has left 'uploaded' (or the record
\* was removed), no step of any handler or job makes it 'uploaded' again.
C1_StatusNeverBackToUploaded ==
    [][\A d \in created :
          (db[d] = NoDoc \/ db[d].status # UploadedStatus)
             => (db'[d] = NoDoc \/ db'[d].status # UploadedStatus)]_vars

\* a tag request that loaded the record while it was 'uploaded' is still
\* waiting to save when the worker has committed 'processed'
C1_Witness ==
    /\ tagReq # NoReq
    /\ tagReq.doc.rec.status = UploadedStatus
    /\ db[tagReq.id] # NoDoc
    /\ db[tagReq.id].status = ProcessedStatus

C3_FatalErrorLeavesRecord ==
    [][/\ (JobEnds /\ threw' \in {"lookup", "download", "moderation", "extraction", "upload"})
            => (result' = "failed" /\ db' = db)
       /\ (jobVars' # jobVars /\ ~JobEnds) => db' = db]_vars

\* a job of a stored, still uploaded document has failed in extraction
C3_Witness ==
    /\ pc = "idle"
    /\ result = "failed"
    /\ threw = "extraction"
    /\ jobDoc \in DocIds
    /\ db[jobDoc] # NoDoc
    /\ db[jobDoc].status = UploadedStatus

C5_PollAttemptsBounded == polls <= ModerationPollLimit

\* C6: extraction and publication of a video run only after the moderation
\* check has read a terminal result without labels.
C6_VideoVerdictFromTerminalResult ==
    (pc \in ExtractionStages /\ StartsWith(docRecord.rec.fileType, "video/"))
       => moderation = "clean"

\* C7: when the latest poll of a loop reported FAILED, the loop has raised:
\* the job is over and failed.
C7_FailedPollRaises ==
    pollStatus = "FAILED" => (pc = "idle" /\ result = "failed")

\* C8: no step changes a stored status 'processed' or moderation-rejected
\* to another value.
C8_TerminalStatusKept ==
    [][\A d \in DocIds :
          (db[d] # NoDoc /\ db[d].status \in {ProcessedStatus, ModerationStatus}
             /\ db'[d] # NoDoc)
          => db'[d].status = db[d].status]_vars

C10_FlaggedSkipsStages ==
    /\ []((pc \in ExtractionStages /\ NeedsModeration(docRecord.rec.fileType))
             => moderation \in {"clean", "unfinished"})
    /\ [](moderation = "flagged" => pc \in {"rejectDelete", "rejectSave"})
    /\ [][(moderation = "flagged" /\ pc' = "idle")
             => (result' = "completed" \/ threw' \in {"delete", "save"})]_vars

\* a flagged job has completed: the record carries the moderation status
C10_Witness ==
    /\ pc = "idle"
    /\ result = "completed"
    /\ jobDoc \in DocIds
    /\ db[jobDoc] # NoDoc
    /\ db[jobDoc].status = ModerationStatus
    /\ db[jobDoc].textS3Key = NoKey

\* C11: a job that runs again for a document already processed with a
\* derived text (duplicate delivery after success) creates no key in the
\* blob store: it only overwrites what the first run wrote.
C11_ReexecutionCreatesNoKey ==
    [][(/\ pc # "idle"
        /\ jobVars' # jobVars
        /\ jobDoc \in DocIds
        /\ db[jobDoc] # NoDoc
        /\ db[jobDoc].status = ProcessedStatus
        /\ db[jobDoc].textS3Key # NoKey)
          => DOMAIN s3' \subseteq DOMAIN s3]_vars

C14_SummarizationFailureIsCaught ==
    /\ [][(pc = "summarize" /\ jobVars' # jobVars)
            => /\ pc' = "commitSummary"
               /\ result' = result
               /\ threw' = threw
               /\ \/ summary' \in {<<>>, <<83>>}
                  \/ LET kept == IF Len(extractedText) <= SliceLimit
                                   THEN extractedText
                                   ELSE SubSeq(extractedText, 1, SliceLimit)
                     IN summary' = FallbackMarker \o kept \o <<46, 46, 46>>]_vars
    /\ [][(pc = "commitSummary" /\ pc' = "idle")
            => \/ threw' = "save"
               \/ /\ result' = "completed"
                  /\ db'[jobDoc] # NoDoc
                       => /\ db'[jobDoc].status = ProcessedStatus
                          /\ db'[jobDoc].summary = summary]_vars
    /\ [](threw # "summarization")

\* a job whose model call failed on a text longer than SliceLimit has
\* committed: the stored summary is the marker, SliceLimit characters, '...'
C14_Witness ==
    /\ pc = "idle"
    /\ result = "completed"
    /\ jobDoc \in DocIds
    /\ db[jobDoc] # NoDoc
    /\ db[jobDoc].status = ProcessedStatus
    /\ Len(db[jobDoc].summary) = Len(FallbackMarker) + SliceLimit + 3
    /\ SubSeq(db[jobDoc].summary, 1, Len(FallbackMarker)) = FallbackMarker

\* C15: when a job whose extraction returned a non-empty text T completes,
\* the record carries a derived text key whose blob holds exactly T, the
\* status is processed and the stored summary is a non-empty text.
C15_TextStoredAndSummaryNonEmpty ==
    [][(/\ pc = "commitSummary"
        /\ pc' = "idle"
        /\ result' = "completed"
        /\ extractedText # <<>>
        /\ db'[jobDoc] # NoDoc)
          => /\ db'[jobDoc].textS3Key # NoKey
             /\ Exists(s3', db'[jobDoc].textS3Key)
             /\ s3'[db'[jobDoc].textS3Key] = extractedText
             /\ db'[jobDoc].status = ProcessedStatus
             /\ db'[jobDoc].summary # NoSummary
             /\ db'[jobDoc].summary # <<>>]_vars

ExtensionOf(key) ==
    LET dots == {i \in 1..Len(key) : key[i] = "."}
    IN IF dots = {} THEN <<>>
       ELSE LET last == CHOOSE i \in dots : \A j \in dots : j <= i
            IN IF \A j \in last..Len(key) : key[j] # "/"
                 THEN SubSeq(key, last, Len(key)) ELSE <<>>

\* the precedence C17 states, on a content type and the extension of the key
ClaimedStrategy(fileType, key) ==
    LET ext == toLowerCase(ExtensionOf(key))
    IN CASE StartsWith(fileType, "image/") -> "textract"
         [] ~StartsWith(fileType, "image/")
            /\ fileType = "application/octet-stream"
            /\ ext \in {Mp3, Wav, Mp4, Mov} -> "transcribe"
         [] ~StartsWith(fileType, "image/")
            /\ fileType # "application/octet-stream"
            /\ (StartsWith(fileType, "audio/") \/ StartsWith(fileType, "video/")) -> "transcribe"
         [] fileType = "application/pdf" -> "pdf-parse"
         [] fileType \in {"application/vnd.ms-excel",
               "application/vnd.openxmlformats-officedocument.spreadsheetml.sheet"} -> "xlsx"
         [] fileType \in {"application/msword",
               "application/vnd.openxmlformats-officedocument.wordprocessingml.document"} -> "mammoth"
         [] OTHER -> "utf8"

\* C17: for every content type and key, TextExtraction takes the one strategy
\* the precedence gives: image/ -> OCR; else octet-stream with an audio or
\* video extension in any case -> transcription; else audio/ or video/ ->
\* transcription; else the parser of the PDF, spreadsheet or word-processor
\* type; else (CSV, octet-stream with another extension, anything else) the
\* bytes decoded as UTF-8.
C17_DispatchPrecedence ==
    call.op = "TextExtraction"
       => call.strategy = ClaimedStrategy(call.fileType, call.s3Key)

\* an octet-stream upload named a.MP3 was sent to transcription
C17_Witness ==
    /\ call.op = "TextExtraction"
    /\ call.fileType = "application/octet-stream"
    /\ call.originalname = <<"a", ".", "M", "P", "3">>
    /\ call.strategy = "transcribe"

\* the derived key C18 states: 'text/', the basename of the original key
\* without its last extension, and the transcript suffix for an original
\* that is sent to transcription, the generic suffix otherwise
ClaimedDerivedKey(originalKey, fileType) ==
    LET parts == split(originalKey, "/")
        basename == parts[Len(parts)]
        ext == ExtensionOf(basename)
        stem == IF Len(ext) > 1 THEN SubSeq(basename, 1, Len(basename) - Len(ext))
                ELSE basename
    IN TextDir \o stem \o
         (IF Strategy(fileType, originalKey) = "transcribe"
            THEN TranscriptSuffix("audio/") ELSE TranscriptSuffix("text/plain"))

\* C18: the key under which the worker uploads the text, and which it
\* assigns to textS3Key, is the derived key the claim states.
C18_DerivedKeyFromBasename ==
    [][(pc = "upload" /\ pc' = "commit")
         => docRecord'.rec.textS3Key
              = ClaimedDerivedKey(docRecord.rec.s3Key, docRecord.rec.fileType)]_vars

\* C19: the derived key is a function of the original key and content type,
\* and the derived keys of two uploads with distinct uuids differ, whatever
\* the two original names are.
C19_DerivedKeysDoNotCollide ==
    call.op = "TranscriptKey"
       => /\ call.id # call.id2 => call.transcriptKey # call.transcriptKey2
          /\ call.id # call.id2 => call.s3Key # call.s3Key2
          /\ (call.s3Key = call.s3Key2 /\ call.fileType = call.fileType2)
                => call.transcriptKey = call.transcriptKey2
          /\ call.transcriptKey = TranscriptKey(call.s3Key, call.fileType)

\* two uploads of one name with a '/' inside, with distinct uuids
C19_Witness ==
    /\ call.op = "TranscriptKey"
    /\ call.id # call.id2
    /\ call.originalname = <<"a", "/", "b", ".", "m", "p", "3">>
    /\ call.originalname2 = call.originalname
    /\ call.fileType = call.fileType2
    /\ call.transcriptKey # call.transcriptKey2

\* C20: for a content type that starts neither with image/ nor with video/,
\* checkContentModeration returns false whatever Rekognition would report,
\* the job of such a document never enters the moderation check or the
\* rejection branch, and no step of it removes the original blob or stores
\* the moderation status.
C20_OtherTypesNeverFlagged ==
    /\ [](\A fileType \in FileTypes, labels \in 0..1 :
            (~StartsWith(fileType, "image/") /\ ~StartsWith(fileType, "video/"))
               => ~checkContentModeration(fileType, labels))
    /\ []((/\ pc # "idle"
           /\ ~StartsWith(docRecord.rec.fileType, "image/")
           /\ ~StartsWith(docRecord.rec.fileType, "video/"))
            => /\ pc \notin {"moderate", "modPoll", "rejectDelete", "rejectSave"}
               /\ moderation = "none")
    /\ [][(/\ pc # "idle"
           /\ ~StartsWith(docRecord.rec.fileType, "image/")
           /\ ~StartsWith(docRecord.rec.fileType, "video/")
           /\ jobVars' # jobVars)
            => /\ Exists(s3, docRecord.rec.s3Key) => Exists(s3', docRecord.rec.s3Key)
               /\ db'[jobDoc] # NoDoc => db'[jobDoc].status # ModerationStatus]_vars

\* the job of an octet-stream upload (an audio file by its extension) has
\* completed: processed, the original still in the blob store
C20_Witness ==
    /\ pc = "idle"
    /\ result = "completed"
    /\ jobDoc \in DocIds
    /\ db[jobDoc] # NoDoc
    /\ db[jobDoc].fileType = "application/octet-stream"
    /\ db[jobDoc].status = ProcessedStatus
    /\ Exists(s3, db[jobDoc].s3Key)

\* two numbers kept as fractions are the same number
SameNumber(a, b) == a[1] * b[2] = b[1] * a[2]

\* C21: the embedding is a pure function of the string: the empty string
\* gives [0, 0, 0], two calls on one string give the same vector of three
\* numbers, and the worker's copy and the retrieval path's copy of
\* generateEmbedding give the same vector on every string.
C21_EmbeddingIsOneFunction ==
    call.op = "generateEmbedding"
       => /\ Len(call.worker) = 3 /\ Len(call.controller) = 3
          /\ call.again = call.worker
          /\ \A i \in 1..3 : SameNumber(call.worker[i], call.controller[i])
          /\ call.text = <<>> => \A i \in 1..3 : SameNumber(call.worker[i], <<0, 1>>)
          /\ \A i \in 1..3 : call.worker[i][2] > 0
          /\ SameNumber(call.worker[1], <<SumCodes(call.text),
                                          IF call.text = <<>> THEN 1 ELSE Len(call.text)>>)

\* both copies were applied to a string of two characters
C21_Witness ==
    /\ call.op = "generateEmbedding"
    /\ call.text = <<32, 66>>
    /\ call.controller[1] = <<98, 2>>

\* C29: for an image, checkContentModeration sends exactly one command,
\* DetectModerationLabels with MinConfidence 80, and its result counts as
\* unsafe exactly when the response names at least one label: a response
\* without ModerationLabels, or with an empty list, is not flagged.
C29_ImageModerationIsOneCall ==
    call.op = "checkImageModeration"
       => /\ Len(call.sent) = 1
          /\ call.sent[1].command = "DetectModerationLabels"
          /\ call.sent[1].MinConfidence = 80
          /\ call.isNSFW <=> (/\ call.response.present
                              /\ call.response.ModerationLabels # <<>>)
          /\ ~call.response.present => ~call.isNSFW

\* an image whose response names exactly one label was found unsafe
C29_Witness ==
    /\ call.op = "checkImageModeration"
    /\ call.fileType = "image/png"
    /\ Len(call.response.ModerationLabels) = 1
    /\ call.isNSFW

Answers(op) == resp' # resp /\ resp'.op = op

\* C22: a generateFromPrompt request whose secret is not the configured one
\* is answered 401 'Unauthorized' by a step that changes nothing else: the
\* index, the blob store, the document store and the requests in flight stay
\* as they are, and no request with another secret ever gets past the check.
C22_WrongSecretIsUnauthorized ==
    /\ [](\A r \in Calls : gen[r] # NoGen => gen[r].secret = AccessTokenSecret)
    /\ [][(Answers("generate") /\ resp'.status = 401)
             => /\ resp'.error = "Unauthorized"
                /\ UNCHANGED <<db, s3, index, gen>>]_vars
    /\ [][(Answers("generate") /\ resp'.status # 401)
             => \E r \in Calls : gen[r] # NoGen /\ gen'[r] = NoGen]_vars

\* a request was answered 401 while the index of an earlier request exists
\* and holds an entry
C22_Witness ==
    /\ resp.op = "generate"
    /\ resp.status = 401
    /\ index.exists
    /\ index.entries # <<>>

\* a step of generateFromPrompt
GenStep == gen' # gen \/ index' # index \/ Answers("generate")

\* C23: no step of generateFromPrompt, in a request that succeeds or in one
\* that fails at the index set-up, the find, a download, the indexing, the
\* refresh or the search, changes a stored document or a blob.
C23_RetrievalLeavesDocuments ==
    [][GenStep => (db' = db /\ s3' = s3)]_vars

\* a request has failed after it had indexed a document, and the documents
\* are stored as the worker left them
C23_Witness ==
    /\ resp.op = "generate"
    /\ resp.status = 500
    /\ index.entries # <<>>
    /\ \E d \in DOMAIN db : db[d] = StoredRecord(d, "processed")

\* the entries of one document in the index
EntriesOf(entries, d) == {k \in 1..Len(entries) : entries[k].id = d}

\* C24: the index holds at most one entry for a document id, and a step
\* that writes the entry of a document leaves exactly the vector and the
\* text of that write under its id and the entries of the other ids as
\* they were.
C24_IndexKeyedByDocument ==
    /\ [](\A d \in DOMAIN db : Cardinality(EntriesOf(index.entries, d)) <= 1)
    /\ [][(index'.entries # index.entries /\ index'.entries # <<>>)
             => \E r \in Calls :
                   /\ gen[r].pc = "index"
                   /\ LET d == gen[r].docs[gen[r].i].id
                          written == [id |-> d,
                                      embedding |-> generateEmbeddingOfController(
                                                        gen[r].cleaned[gen[r].i]),
                                      text |-> gen[r].cleaned[gen[r].i]]
                      IN /\ \A k \in EntriesOf(index'.entries, d) :
                               index'.entries[k] = written
                         /\ EntriesOf(index'.entries, d) # {}
                         /\ \A e \in DOMAIN db \ {d} :
                               {index'.entries[k] : k \in EntriesOf(index'.entries, e)}
                                 = {index.entries[k] : k \in EntriesOf(index.entries, e)}]_vars
    /\ [][(index'.entries # index.entries /\ index'.entries = <<>>)
             => \E r \in Calls : gen[r].pc \in {"delete", "create"}]_vars

\* two requests in flight have both indexed the one processed document, and
\* the index holds one entry
C24_Witness ==
    /\ \A r \in Calls : gen[r] # NoGen /\ gen[r].pc \in {"refresh", "search"}
    /\ Len(gen[1].docs) = 1
    /\ gen[2].docs = gen[1].docs
    /\ Len(index.entries) = 1

\* C26: an upload request without a file is answered 400 'No file
\* provided.' by a step that writes no blob, creates no record and adds no
\* job.
C26_NoFileIsRejected ==
    /\ [](resp.op = "upload without file"
            => (resp.status = 400 /\ resp.error = "No file provided."))
    /\ [][Answers("upload without file")
             => UNCHANGED <<db, s3, queue, nextId, created, up>>]_vars

\* the answer to an upload without a file, nothing stored
C26_Witness ==
    /\ resp.op = "upload without file"
    /\ resp.status = 400
    /\ s3 = <<>>
    /\ nextId = 1
    /\ queue = <<>>

\* C27: a tag update that is answered 200 for a record that exists stores
\* exactly the supplied array (the empty list for a value that is no array)
\* as the tags, and changes no other field of the record, no other record
\* and no blob; a tag update for an id without a record is answered 404
\* 'Document not found.' and changes nothing.
C27_TagsReplaced ==
    /\ [][(/\ tagReq # NoReq /\ tagReq' = NoReq
           /\ resp'.status = 200 /\ db[tagReq.id] # NoDoc)
             => /\ db'[tagReq.id].tags = IF tagReq.supplied.array
                                           THEN tagReq.supplied.value ELSE <<>>
                /\ \A f \in Fields \ {"tags"} : db'[tagReq.id][f] = db[tagReq.id][f]
                /\ \A d \in DOMAIN db \ {tagReq.id} : db'[d] = db[d]
                /\ s3' = s3]_vars
    /\ [][(tagReq = NoReq /\ tagReq' # NoReq)
             => (db[tagReq'.id] # NoDoc /\ db' = db /\ resp' = resp)]_vars
    /\ [][(Answers("tags") /\ tagReq = NoReq)
             => /\ resp'.status = 404
                /\ resp'.error = "Document not found."
                /\ db[resp'.id] = NoDoc
                /\ UNCHANGED <<db, s3, tagReq>>]_vars

\* a tag update whose value is no array has assigned the empty list to a
\* record with tags, and waits to save
C27_Witness ==
    /\ tagReq # NoReq
    /\ ~tagReq.supplied.array
    /\ "tags" \in tagReq.doc.dirty
    /\ tagReq.doc.rec.tags = <<>>
    /\ db[tagReq.id] # NoDoc

\* C28: deleteDocument answers 200 exactly when it has removed the record
\* of the id, and 404 'Document not found.' without any change when there
\* is none; a record that is gone never comes back, so a status lookup, a
\* tag update or a delete that looks the id up afterwards is answered 404,
\* and a search returns only ids that have a record.
C28_DeletedStaysGone ==
    /\ [][(Answers("delete") /\ resp'.status = 200)
             => /\ db[resp'.id] # NoDoc
                /\ db' = [db EXCEPT ![resp'.id] = NoDoc]]_vars
    /\ [][(Answers("delete") /\ resp'.status = 404)
             => /\ resp'.error = "Document not found."
                /\ db[resp'.id] = NoDoc
                /\ UNCHANGED <<db, s3, tagReq, up>>]_vars
    /\ [][\A d \in created : db[d] = NoDoc => db'[d] = NoDoc]_vars
    /\ [][(/\ \/ Answers("status")
              \/ Answers("delete")
              \/ Answers("tags") /\ tagReq = NoReq
           /\ db[resp'.id] = NoDoc
           /\ resp'.status # 500)
             => (resp'.status = 404 /\ resp'.error = "Document not found.")]_vars
    /\ [][(Answers("search") /\ resp'.status = 200)
             => \A d \in resp'.documents : db[d] # NoDoc]_vars

\* the one document of a fresh server was uploaded and deleted, and a later
\* status lookup of its id was answered 404
C28_Witness ==
    /\ nextId = 2
    /\ created = {1}
    /\ db[1] = NoDoc
    /\ resp.op = "status"
    /\ resp.id = 1
    /\ resp.status = 404

\* the derived blob a stored record names is in the blob store and holds a
\* non-empty text
DerivedBlobStored(d) ==
    db[d].textS3Key # NoKey
       => /\ Exists(s3, db[d].textS3Key)
          /\ s3[db[d].textS3Key] # <<>>

\* the original blob of a record whose stored status is 'processed' is in the
\* blob store
OriginalBlobStored(d) ==
    db[d].status = ProcessedStatus => Exists(s3, db[d].s3Key)

\* C31: referential integrity of the record in every reachable state: a
\* stored record that names a derived text key has a blob with extracted
\* text at that key, and a stored record whose status is 'processed' still
\* has its original blob.
C31_ReferentialIntegrity ==
    \A d \in DocIds :
       db[d] # NoDoc => DerivedBlobStored(d) /\ OriginalBlobStored(d)

\* the derived blobs alone: every stored record that names a derived text key
\* has its blob
DerivedBlobsAreStored ==
    \A d \in DocIds : db[d] # NoDoc => DerivedBlobStored(d)

\* C32: the rejection branch is failure-atomic: in the state a job ends in
\* (by return or by exception), the original blob of its document is gone
\* exactly when the stored status is the moderation status; in particular
\* no job ends with the blob deleted and the status still 'uploaded'.
C32_RejectionIsAtomic ==
    [][JobEnds /\ result' # "none" /\ jobDoc' \in DocIds /\ db'[jobDoc'] # NoDoc
          => /\ (~Exists(s3', db'[jobDoc'].s3Key)
                    <=> db'[jobDoc'].status = ModerationStatus)
             /\ ~(/\ ~Exists(s3', db'[jobDoc'].s3Key)
                  /\ db'[jobDoc'].status = UploadedStatus)]_vars

\* a step of the worker on a job whose record is not in the document store
OrphanJobStep ==
    \/ /\ pc = "idle" /\ queue # <<>> /\ queue' = Tail(queue)
       /\ db[Head(queue)] = NoDoc
    \/ /\ pc # "idle" /\ jobVars' # jobVars
       /\ db[jobDoc] = NoDoc

\* C33: a job on a document ID without a record (never created, or deleted
\* before or while the job runs) leaves nothing behind and fails: no step
\* creates a record under an ID that was deleted, a step of such a job does
\* not write the document store and does not create the derived text blob
\* of its document, and when such a job ends it is reported failed.
C33_OrphanJobHasNoEffect ==
    /\ [][\A d \in created : db[d] = NoDoc => db'[d] = NoDoc]_vars
    /\ [][OrphanJobStep
             => /\ db' = db
                /\ (JobEnds => result' = "failed")
                /\ (pc # "idle" =>
                      LET transcriptKey ==
                            TranscriptKey(docRecord.rec.s3Key, docRecord.rec.fileType)
                      IN Exists(s3', transcriptKey) => Exists(s3, transcriptKey))]_vars

\* the ids of the documents the request in slot r has found processed
FoundIds(r) == {gen[r].docs[k].id : k \in 1..Len(gen[r].docs)}

\* the index is in the state the next call of the request in slot r needs:
\* there to be deleted, absent to be created, there to be refreshed and
\* searched
IndexAsExpected(r) ==
    /\ gen[r].pc = "delete" => index.exists
    /\ gen[r].pc = "create" => ~index.exists
    /\ gen[r].pc \in {"refresh", "search"} => index.exists

\* C34: retrieval calls are safe to run concurrently: no call finds the
\* index in a state in which its next index operation is rejected because
\* of the other call's reset, and when a call searches, the index holds an
\* entry for every document the call has found processed.
C34_ConcurrentRetrievalIsSafe ==
    \A r \in Calls :
       gen[r] # NoGen
          => /\ IndexAsExpected(r)
             /\ gen[r].pc = "search"
                   => \A d \in FoundIds(r) : EntriesOf(index.entries, d) # {}

\* the request in slot r answers 200 in this step
AnswersRetrieval(r) ==
    /\ gen[r] # NoGen /\ gen[r].pc = "search"
    /\ gen'[r] = NoGen
    /\ resp'.op = "generate" /\ resp'.status = 200

\* C35: the context of a retrieval answer is built from at most five hits,
\* and every hit is a document the call has found with the stored status
\* 'processed': no text of a document that was uploaded, rejected or deleted
\* when the call read the document store is in the context.
C35_ContextFromProcessedOnly ==
    [][\A r \in Calls :
          AnswersRetrieval(r)
             => /\ Cardinality(resp'.documents) <= SearchSize
                /\ resp'.documents \subseteq FoundIds(r)]_vars

\* C36: an upload is answered as successful only when its job is in the
\* queue: in the state after the answer 'File uploaded successfully' for a
\* document, the queue holds a job with that document's id.
C36_SuccessMeansQueued ==
    [][(Answers("upload") /\ resp'.status = 200)
          => \E k \in 1..Len(queue') : queue'[k] = resp'.id]_vars

\* the original names the statement for C37 calls executable: they end,
\* whatever the case of their letters, in a disallowed extension
EndsInDisallowed(name) ==
    \E e \in disallowedExtensions : endsWith(toLowerCase(name), e)

\* C37: an upload whose original name ends in .exe, .bat, .sh, .msi or .cmd
\* (in any case) has no side effect: no blob is ever stored under such a
\* name, no upload in progress and no record carries one; an upload answer
\* 400 changes no store and no queue; an upload answer 500 adds no record
\* and no job.
C37_ExecutablesAndFailuresRejected ==
    /\ [](/\ \A k \in DOMAIN s3 : ~EndsInDisallowed(k)
          /\ up # NoReq => ~EndsInDisallowed(up.s3Key)
          /\ \A d \in DOMAIN db : db[d] # NoDoc => ~EndsInDisallowed(db[d].s3Key))
    /\ [][(Answers("upload") /\ resp'.status = 400)
             => (/\ resp'.error = "Executable files are not allowed."
                 /\ UNCHANGED <<db, s3, queue, nextId, created, up>>)]_vars
    /\ [][(Answers("upload") /\ resp'.status = 500)
             => UNCHANGED <<db, queue, created>>]_vars

====
